---- MODULE Spec2Model ----
(***************************************************************************)
(* Agilepy SourcesLibrary (src/agilepy/api/SourcesLibrary.py): the source  *)
(* catalog, its selection engine (selectSourcesWithLambda), its mutators   *)
(* (freeSources, deleteSources, updateMulti) as a state machine.           *)
(*                                                                         *)
(* Python objects live in two heaps: src (Source objects, addressed by the *)
(* position at which the loader created them) and fits (MultiOutput        *)
(* objects).  A reference is the index of the object; 0 is None.  The      *)
(* catalog's list self.sourcesLibrary.sources is a sequence of references. *)
(* Exceptions (exit(1) raises SystemExit) are outcomes of a call: the      *)
(* caller may catch them and go on using the library object.  A call is    *)
(* one step, from Idle to the record of what it did; Return is the step    *)
(* back to Idle, after which any operation may be called.                  *)
(***************************************************************************)
EXTENDS Integers, Sequences, FiniteSets, TLC

\* ---- bound of the model ---------------------------------------------------
MaxSources == 2      \* <source> elements of a loaded document

\* ---- input alphabets ----------------------------------------------------
SourceNames == {"A", "B"}
FitLabels   == SourceNames \cup {"Z"}          \* "Z" names no source
Sentinel    == 0 - 1                           \* position not fitted
StartPosition == <<180, 0>>                    \* start_l, start_b of a fit result

VARIABLES
    loaded,     \* self.sourcesLibrary is not None
    sources,    \* self.sourcesLibrary.sources: references into src, catalog order
    src,        \* heap of Source objects
    fits,       \* heap of the MultiOutput objects some source refers to
    attached,   \* history: the sources an updateMulti attached a fit result to
    outfile,    \* the file writeToFile writes: whether it exists, and its text
    xmlFilePathPrefix,  \* self.xmlFilePathPrefix, "None" before any load
    xmlFilePath,        \* self.xmlFilePath, NoPath before any load
    loadedFrom,         \* history: the path of the document the catalog was built from
    op          \* the call that has just returned (its arguments, its outcome,
                \* its return value, the state it started in), or Idle

vars ==
    <<loaded, sources, src, fits, attached, outfile, xmlFilePathPrefix, xmlFilePath,
      loadedFrom, op>>

\* ---- sequences ----------------------------------------------------------
Range(s) == {s[i] : i \in 1..Len(s)}

\* the runs of pieces between the separators, as str.split(sep) gives them
RECURSIVE SplitAt(_, _)
SplitAt(pieces, sep) ==
    LET ks == {k \in 1..Len(pieces) : pieces[k] = sep} IN
    IF ks = {} THEN <<pieces>>
    ELSE LET k == CHOOSE i \in ks : \A j \in ks : i <= j IN
         <<SubSeq(pieces, 1, k - 1)>> \o SplitAt(SubSeq(pieces, k + 1, Len(pieces)), sep)

\* ---- the XML document (xml.etree.ElementTree) -------------------------------
\* an element is its tag, its attributes and its children in document order
ParameterElement(tag, n, v, mn, mx, f) ==
    [tag |-> tag, attrib |-> [name |-> n, value |-> v, min |-> mn, max |-> mx, free |-> f]]

DescriptionElement(tag, type, free, location_limit, children) ==
    [tag |-> tag,
     attrib |-> [type |-> type, free |-> free, location_limit |-> location_limit],
     children |-> children]

SourceElement(tag, name, children) ==
    [tag |-> tag, attrib |-> [name |-> name], children |-> children]

\* ---- the data classes built by the loader --------------------------------
\* Parameter(**parameter.attrib): every attribute stays the string of the file
Parameter(attrib) == attrib

\* a source without a <spectrum> or a <spatialModel> keeps None there
NoSpectrum == [type |-> "None", parameters |-> <<>>]
NoSpatialModel ==
    [type |-> "None", free |-> "", location_limit |-> "", parameters |-> <<>>]

\* _fail formats its message with a name that is bound nowhere, so that the
\* call ends in a NameError before its exit(1) is reached
_fail == "NameError"

\* the parameters of a description, or the failure at a child of another tag
_checkAndAddParameters(sourceDescription) ==
    LET children == sourceDescription.children IN
    IF \E k \in 1..Len(children) : children[k].tag # "parameter"
    THEN [outcome |-> _fail, parameters |-> <<>>]
    ELSE [outcome |-> "ok",
          parameters |-> [k \in 1..Len(children) |-> Parameter(children[k].attrib)]]

Spectrum(sourceDescription) ==
    [type |-> sourceDescription.attrib.type,
     parameters |-> _checkAndAddParameters(sourceDescription).parameters]

SpatialModel(sourceDescription) ==
    [type |-> sourceDescription.attrib.type,
     free |-> sourceDescription.attrib.free,
     location_limit |-> sourceDescription.attrib.location_limit,
     parameters |-> _checkAndAddParameters(sourceDescription).parameters]

\* the last description of a tag is the one the source keeps
LastOf(descriptions, tag) ==
    LET ks == {k \in 1..Len(descriptions) : descriptions[k].tag = tag} IN
    IF ks = {} THEN 0 ELSE CHOOSE k \in ks : \A j \in ks : j <= k

\* the body of the loop over the <source> elements
NewSource(source) ==
    LET d  == source.children
        sp == LastOf(d, "spectrum")
        sm == LastOf(d, "spatialModel")
    IN  [name |-> source.attrib.name,
         spectrum |-> IF sp = 0 THEN NoSpectrum ELSE Spectrum(d[sp]),
         spatialModel |-> IF sm = 0 THEN NoSpatialModel ELSE SpatialModel(d[sm]),
         multi |-> 0]

\* the element is one the parser stops at
Rejected(source) ==
    \/ source.tag # "source"
    \/ \E k \in 1..Len(source.children) :
          \/ source.children[k].tag \notin {"spectrum", "spatialModel"}
          \/ _checkAndAddParameters(source.children[k]).outcome # "ok"

\* mutant: the sources parsed before the element the parser stops at are kept
_parseSourceXml_partial(doc) ==
    LET bad == {i \in 1..Len(doc) : Rejected(doc[i])}
        n   == IF bad = {} THEN Len(doc) ELSE (CHOOSE i \in bad : \A j \in bad : i <= j) - 1
    IN  [outcome |-> "ok", sources |-> [i \in 1..n |-> NewSource(doc[i])]]

\* the sources of the document in document order, or the failure at the first
\* element the parser stops at: the list built so far is dropped with it
_parseSourceXml(doc) ==
    IF \E i \in 1..Len(doc) : Rejected(doc[i])
    THEN [outcome |-> "NameError", sources |-> <<>>]
    ELSE [outcome |-> "ok", sources |-> [i \in 1..Len(doc) |-> NewSource(doc[i])]]

\* ---- documents ---------------------------------------------------------------
SpectrumTypes == {"PowerLaw", "PLExpCutoff", "PLSuperExpCutoff", "LogParabola"}

\* the parameters a spectrum of the type carries, in the order of the file
ParametersOf(type) ==
    IF type = "PowerLaw" THEN <<"Flux", "Index">>
    ELSE IF type = "PLExpCutoff" THEN <<"Flux", "Index", "CutoffEnergy">>
    ELSE IF type = "PLSuperExpCutoff" THEN <<"Flux", "Index1", "CutoffEnergy", "Index2">>
    ELSE <<"Flux", "Index", "PivotEnergy", "Curvature">>

\* the value, min and max strings of a parameter
StringsOf(n) ==
    IF n = "Flux" THEN <<"7e-08", "1e-10", "1e-04">>
    ELSE IF n = "Index" THEN <<"2.1", "0.5", "5">>
    ELSE IF n = "Index1" THEN <<"1.7", "0.6", "4">>
    ELSE IF n = "Index2" THEN <<"1.3", "0.1", "3.5">>
    ELSE IF n = "CutoffEnergy" THEN <<"3000", "20", "10000">>
    ELSE IF n = "PivotEnergy" THEN <<"2000", "30", "9000">>
    ELSE IF n = "Curvature" THEN <<"0.4", "0.2", "0.9">>
    ELSE IF n = "GLON" THEN <<"80.3", "", "">>
    ELSE <<"1.2", "", "">>

\* a <source> of the given spectrum type: free gives the flag of each
\* spectrum parameter, missing the parameters left out of the file
XmlSource(name, type, free, spatialFree, missing) ==
    LET Par(n, f) == ParameterElement("parameter", n, StringsOf(n)[1],
                                      StringsOf(n)[2], StringsOf(n)[3], f)
        kept == SelectSeq(ParametersOf(type), LAMBDA n : n \notin missing)
        pos  == SelectSeq(<<"GLON", "GLAT">>, LAMBDA n : n \notin missing)
    IN  SourceElement("source", name,
          << DescriptionElement("spectrum", type, "", "",
                                [k \in 1..Len(kept) |-> Par(kept[k], free[kept[k]])]),
             DescriptionElement("spatialModel", "PointSource", spatialFree, "5",
                                [k \in 1..Len(pos) |-> Par(pos[k], "")]) >>)

AllFixed == [n \in {"Flux", "Index", "Index1", "Index2", "CutoffEnergy",
                    "PivotEnergy", "Curvature"} |-> "0"]

\* a power law source with a free flux at a fixed position
PlainSource(name) ==
    XmlSource(name, "PowerLaw", [AllFixed EXCEPT !["Flux"] = "1"], "0", {})

\* the documents of plain sources: one <source> per name
Documents ==
    UNION {{[i \in 1..n |-> PlainSource(names[i])] : names \in [1..n -> SourceNames]} :
           n \in 0..MaxSources}

\* ---- the registries of the catalog (agilepy.dataclasses.Source) ----------
\* SourceLibrary.getSelectionParams(multi=True): the fitted attributes
MultiParams == {"Dist"}

\* SourceLibrary.getSelectionParams(): Name plus the fitted attributes
SelectionParams == {"Name"} \cup MultiParams

\* SourceLibrary.getFreeParams(): the parameters freeSources may release
FreeParams == {"Flux", "Index"}

\* ---- predicates (the selectionLambda argument) ---------------------------
\* A lambda is its declared parameter names (inspect.signature) and its body.
\* The body is a conjunction of one test per declared parameter: Name == name,
\* Dist <= maxDist; a parameter of any other name is not looked at.  No
\* parameter has a default value.
Lam(params, name) == [params |-> params, name |-> name, maxDist |-> 90]
NoLambda == [params |-> <<>>, name |-> "", maxDist |-> 0]

StrVal(s) == [t |-> "str", s |-> s, n |-> 0]
NumVal(n) == [t |-> "num", s |-> "", n |-> n]

\* the test the body makes on the argument bound to the parameter pname
BodyTest(lam, pname, a) ==
    CASE pname = "Name" -> a.t = "str" /\ a.s = lam.name
      [] pname = "Dist" -> a.t = "num" /\ a.n <= lam.maxDist
      [] OTHER          -> TRUE

\* selectionLambda(*args): Python binds the arguments to the declared
\* parameters by position and raises TypeError when their numbers differ
Call(lam, args) ==
    IF Len(args) # Len(lam.params) THEN "TypeError"
    ELSE IF \A k \in 1..Len(args) : BodyTest(lam, lam.params[k], args[k])
         THEN "True" ELSE "False"

\* ---- selection engine ------------------------------------------------------
\* mutant: the names are not checked against the registry
_validateSelectionParams_unchecked(userSelectionParams) == userSelectionParams

_validateSelectionParams(userSelectionParams) ==
    SelectSeq(userSelectionParams, LAMBDA up : up \in SelectionParams)

\* mutant: no source is passed over for want of a fit result
_needMultiParams_never(validatedUserSelectionParams) == FALSE

_needMultiParams(validatedUserSelectionParams) ==
    \E k \in 1..Len(validatedUserSelectionParams) :
        validatedUserSelectionParams[k] \in MultiParams

\* getattr(source, "name"), or float(getattr(source.multi, param))
ParamValue(source, param) ==
    IF param = "Name" THEN StrVal(src[source].name)
    ELSE NumVal(fits[src[source].multi][param])

Returned(outcome, result, invoked) ==
    [outcome |-> outcome, result |-> result, invoked |-> invoked]

RECURSIVE SelectLoop(_, _, _, _)
\* the loop over self.sourcesLibrary.sources, from position i on; acc is the
\* list built so far and the calls of the lambda made so far
SelectLoop(lam, validated, i, acc) ==
    IF i > Len(sources) THEN acc
    ELSE LET source == sources[i] IN
         IF _needMultiParams(validated) /\ src[source].multi = 0
         THEN SelectLoop(lam, validated, i + 1, acc)
         ELSE IF \E k \in 1..Len(validated) :
                     /\ validated[k] # "Name"
                     /\ \/ src[source].multi = 0
                        \/ validated[k] \notin DOMAIN fits[src[source].multi]
         THEN \* getattr(source.multi, param) on None, or on a missing attribute
              Returned("AttributeError", <<>>, acc.invoked)
         ELSE LET values  == [k \in 1..Len(validated) |-> ParamValue(source, validated[k])]
                  called  == Append(acc.invoked, [source |-> source, args |-> values])
                  verdict == Call(lam, values)
              IN IF verdict = "TypeError"
                 THEN Returned("TypeError", <<>>, called)
                 ELSE SelectLoop(lam, validated, i + 1,
                          Returned("ok",
                                   IF verdict = "True" THEN Append(acc.result, source)
                                   ELSE acc.result,
                                   called))

selectSourcesWithLambda(lam) ==
    IF ~loaded THEN Returned("AttributeError", <<>>, <<>>)   \* None.getSelectionParams
    ELSE LET validated == _validateSelectionParams(lam.params) IN
         IF Len(validated) = 0 THEN Returned("ok", <<>>, <<>>)
         ELSE SelectLoop(lam, validated, 1, Returned("ok", <<>>, <<>>))

\* ---- mutators ----------------------------------------------------------------
\* Source.setFreeAttributeValueOf(parameterName, free)
setFreeAttributeValueOf(source, parameterName, free) ==
    [source EXCEPT !.spectrum.parameters =
        [k \in 1..Len(@) |-> IF @[k].name = parameterName
                             THEN [@[k] EXCEPT !.free = free] ELSE @[k]]]

\* mutant: parameterName is not checked against the free-able parameters
freeSources_unchecked(lam, parameterName, free) ==
    LET sel == selectSourcesWithLambda(lam) IN
    IF sel.outcome # "ok"
    THEN [outcome |-> sel.outcome, result |-> <<>>, invoked |-> sel.invoked, src |-> src]
    ELSE [outcome |-> "ok", result |-> sel.result, invoked |-> sel.invoked,
          src |-> [s \in DOMAIN src |->
                     IF s \in Range(sel.result)
                     THEN setFreeAttributeValueOf(src[s], parameterName, free)
                     ELSE src[s]]]

\* mutant: the loop runs over every source of the catalog
freeSources_everySource(lam, parameterName, free) ==
    LET sel == selectSourcesWithLambda(lam) IN
    IF sel.outcome # "ok"
    THEN [outcome |-> sel.outcome, result |-> <<>>, invoked |-> sel.invoked, src |-> src]
    ELSE IF parameterName \notin FreeParams
    THEN [outcome |-> "NameError", result |-> <<>>, invoked |-> sel.invoked, src |-> src]
    ELSE [outcome |-> "ok", result |-> sel.result, invoked |-> sel.invoked,
          src |-> [s \in DOMAIN src |->
                     IF s \in Range(sources)
                     THEN setFreeAttributeValueOf(src[s], parameterName, free)
                     ELSE src[s]]]

\* mutant: only the sources whose flag the call changes are returned
freeSources_affectedOnly(lam, parameterName, free) ==
    LET sel == selectSourcesWithLambda(lam) IN
    IF sel.outcome # "ok"
    THEN [outcome |-> sel.outcome, result |-> <<>>, invoked |-> sel.invoked, src |-> src]
    ELSE IF parameterName \notin FreeParams
    THEN [outcome |-> "NameError", result |-> <<>>, invoked |-> sel.invoked, src |-> src]
    ELSE [outcome |-> "ok",
          result |-> SelectSeq(sel.result,
                         LAMBDA s : setFreeAttributeValueOf(src[s], parameterName, free) # src[s]),
          invoked |-> sel.invoked,
          src |-> [s \in DOMAIN src |->
                     IF s \in Range(sel.result)
                     THEN setFreeAttributeValueOf(src[s], parameterName, free)
                     ELSE src[s]]]

\* the outcome, the returned list and the heap of sources after the call
freeSources(lam, parameterName, free) ==
    LET sel == selectSourcesWithLambda(lam) IN
    IF sel.outcome # "ok"
    THEN [outcome |-> sel.outcome, result |-> <<>>, invoked |-> sel.invoked, src |-> src]
    ELSE IF parameterName \notin FreeParams
    THEN \* the warning's argument list names selectionParam, which is not defined
         [outcome |-> "NameError", result |-> <<>>, invoked |-> sel.invoked, src |-> src]
    ELSE [outcome |-> "ok", result |-> sel.result, invoked |-> sel.invoked,
          src |-> [s \in DOMAIN src |->
                     IF s \in Range(sel.result)
                     THEN setFreeAttributeValueOf(src[s], parameterName, free)
                     ELSE src[s]]]

\* Source.__eq__: two Source objects are equal when their fields are
SourceEq(a, b) ==
    /\ src[a].name = src[b].name
    /\ src[a].spectrum = src[b].spectrum
    /\ src[a].spatialModel = src[b].spatialModel
    /\ \/ src[a].multi = src[b].multi
       \/ /\ src[a].multi # 0
          /\ src[b].multi # 0
          /\ fits[src[a].multi] = fits[src[b].multi]

\* s in list: Python's list membership is identity or equality
InList(s, list) ==
    \E k \in 1..Len(list) : list[k] = s \/ SourceEq(list[k], s)

\* mutant: only the first selected source is removed
deleteSources_firstOnly(lam) ==
    LET sourcesToBeDeleted == selectSourcesWithLambda(lam) IN
    IF sourcesToBeDeleted.outcome # "ok"
    THEN [outcome |-> sourcesToBeDeleted.outcome, result |-> <<>>,
          invoked |-> sourcesToBeDeleted.invoked, sources |-> sources]
    ELSE IF sourcesToBeDeleted.result = <<>>
    THEN [outcome |-> "ok", result |-> <<>>,
          invoked |-> sourcesToBeDeleted.invoked, sources |-> sources]
    ELSE [outcome |-> "ok", result |-> sourcesToBeDeleted.result,
          invoked |-> sourcesToBeDeleted.invoked,
          sources |-> SelectSeq(sources,
                          LAMBDA s : s # Head(sourcesToBeDeleted.result))]

\* mutant: the sources kept are put back in the reverse of their order
deleteSources_reversed(lam) ==
    LET sourcesToBeDeleted == selectSourcesWithLambda(lam)
        kept == SelectSeq(sources, LAMBDA s : ~InList(s, sourcesToBeDeleted.result))
    IN
    IF sourcesToBeDeleted.outcome # "ok"
    THEN [outcome |-> sourcesToBeDeleted.outcome, result |-> <<>>,
          invoked |-> sourcesToBeDeleted.invoked, sources |-> sources]
    ELSE [outcome |-> "ok", result |-> sourcesToBeDeleted.result,
          invoked |-> sourcesToBeDeleted.invoked,
          sources |-> [k \in 1..Len(kept) |-> kept[Len(kept) + 1 - k]]]

\* the outcome, the returned list and the catalog's list after the call
deleteSources(lam) ==
    LET sourcesToBeDeleted == selectSourcesWithLambda(lam) IN
    IF sourcesToBeDeleted.outcome # "ok"
    THEN [outcome |-> sourcesToBeDeleted.outcome, result |-> <<>>,
          invoked |-> sourcesToBeDeleted.invoked, sources |-> sources]
    ELSE [outcome |-> "ok", result |-> sourcesToBeDeleted.result,
          invoked |-> sourcesToBeDeleted.invoked,
          sources |-> SelectSeq(sources,
                          LAMBDA s : ~InList(s, sourcesToBeDeleted.result))]

\* Astro.distance(ll, bl, lf, bf): the angular separation, in degrees, of two
\* sky positions; computed here on the positions whose coordinates are
\* multiples of 90 degrees, where sines and cosines are -1, 0 or 1
OnGrid(x) == x % 90 = 0
CosDeg(x) ==
    CASE x % 360 = 0   -> 1
      [] x % 360 = 90  -> 0
      [] x % 360 = 180 -> 0 - 1
      [] x % 360 = 270 -> 0
SinDeg(x) == CosDeg(x - 90)
ACosDeg(c) ==
    CASE c = 1     -> 0
      [] c = 0     -> 90
      [] c = 0 - 1 -> 180
\* off the grid the separation is not computed: the value is Undefined
Undefined == 0 - 2
Distance(ll, bl, lf, bf) ==
    IF ~(OnGrid(ll) /\ OnGrid(bl) /\ OnGrid(lf) /\ OnGrid(bf)) THEN Undefined
    ELSE ACosDeg(SinDeg(bl) * SinDeg(bf) + CosDeg(bl) * CosDeg(bf) * CosDeg(ll - lf))

\* the MultiOutput record handed to updateMulti, as parseSourceFile builds it
Fit(label, L, B) ==
    [label |-> label, L |-> L, B |-> B, start_l |-> StartPosition[1], start_b |-> StartPosition[2],
     Dist |-> 0 - 1]
NoData == [label |-> "", L |-> 0, B |-> 0, start_l |-> 0, start_b |-> 0, Dist |-> 0 - 1]

\* mutant: one test of the longitude decides for both coordinates
ResolvedPosition_joint(data) ==
    IF data.L = Sentinel THEN <<data.start_l, data.start_b>> ELSE <<data.L, data.B>>

\* sourceL, sourceB of updateMulti after the two sentinel tests
ResolvedPosition(data) ==
    << IF data.L = Sentinel THEN data.start_l ELSE data.L,
       IF data.B = Sentinel THEN data.start_b ELSE data.B >>

\* the references held by the sources of the heap
Refs(heap) == {heap[s].multi : s \in DOMAIN heap} \ {0}

\* the address of a new MultiOutput object: one that no source refers to (an
\* object no source refers to any more is collected and its address reused)
NewRef == CHOOSE k \in 1..(Len(src) + 1) : k \notin Refs(src)

\* mutant: an empty sourcesFound is not told apart
updateMulti_noExit(data, mapCenterL, mapCenterB) ==
    LET sourcesFound == selectSourcesWithLambda(Lam(<<"Name">>, data.label)) IN
    [outcome |-> sourcesFound.outcome, result |-> sourcesFound.result,
     invoked |-> sourcesFound.invoked, src |-> src, fits |-> fits]

\* the outcome and the two heaps after the call; data becomes the object at
\* NewRef, and every source found refers to that one object
updateMulti(data, mapCenterL, mapCenterB) ==
    LET sourcesFound == selectSourcesWithLambda(Lam(<<"Name">>, data.label))
        pos == ResolvedPosition(data)
        attachedTo == [s \in DOMAIN src |->
                         IF s \in Range(sourcesFound.result)
                         THEN [src[s] EXCEPT !.multi = NewRef] ELSE src[s]]
    IN IF sourcesFound.outcome # "ok"
       THEN [outcome |-> sourcesFound.outcome, result |-> <<>>,
             invoked |-> sourcesFound.invoked, src |-> src, fits |-> fits]
       ELSE IF Len(sourcesFound.result) = 0
       THEN [outcome |-> "exit", result |-> <<>>,
             invoked |-> sourcesFound.invoked, src |-> src, fits |-> fits]
       ELSE [outcome |-> "ok", result |-> sourcesFound.result,
             invoked |-> sourcesFound.invoked,
             src |-> attachedTo,
             fits |-> [k \in Refs(attachedTo) |->
                         IF k = NewRef
                         THEN [data EXCEPT !.Dist =
                                   Distance(pos[1], pos[2], mapCenterL, mapCenterB)]
                         ELSE fits[k]]]

\* ---- the free/fixed bitmask ------------------------------------------------
\* a flag is the string of the file ("0", "1", "2") or the bool freeSources
\* stored ("True", "False"); x == n of Python: a str never equals an int, a
\* bool equals the int of its truth value
IsBool(x) == x \in {"True", "False"}
PyEq(x, n) == (x = "True" /\ n = 1) \/ (x = "False" /\ n = 0)

\* Spectrum.getFreeAttributeValueOf("name", value): the free attribute of the
\* last parameter of that name, "0" when the spectrum has none
getFreeAttributeValueOf(spectrum, value) ==
    LET ks == {k \in 1..Len(spectrum.parameters) : spectrum.parameters[k].name = value}
    IN  IF ks = {} THEN "0"
        ELSE spectrum.parameters[CHOOSE k \in ks : \A j \in ks : j <= k].free

\* int(bitmask, 2) of a string of binary digits, most significant first
RECURSIVE Int2(_)
Int2(digits) ==
    IF digits = <<>> THEN 0
    ELSE 2 * Int2(SubSeq(digits, 1, Len(digits) - 1))
         + (IF digits[Len(digits)] = "1" THEN 1 ELSE 0)

\* str(n) of a natural number
Digit(d) == <<"0", "1", "2", "3", "4", "5", "6", "7", "8", "9">>[d + 1]
RECURSIVE Str(_)
Str(n) == IF n < 10 THEN Digit(n) ELSE Str(n \div 10) \o Digit(n % 10)

\* mutant: the spatial flag is packed before the index flags
BitmaskDigits_spatialFirst(source) ==
    LET free(n) == getFreeAttributeValueOf(source.spectrum, n) IN
    << free("Curvature"), free("Index2"), free("CutoffEnergy"), free("PivotEnergy"),
       source.spatialModel.free, free("Index"), free("Index1"), free("Flux") >>

\* the digits in the order of the branch taken
BitmaskDigits(source) ==
    LET free(n) == getFreeAttributeValueOf(source.spectrum, n) IN
    IF PyEq(source.spatialModel.free, 2)
    THEN << source.spatialModel.free, free("Curvature"), free("Index2"),
            free("CutoffEnergy"), free("PivotEnergy"), free("Index"), free("Index1"),
            "0", free("Flux") >>
    ELSE << free("Curvature"), free("Index2"), free("CutoffEnergy"),
            free("PivotEnergy"), free("Index"), free("Index1"),
            source.spatialModel.free, free("Flux") >>

\* str(int(bitmask, 2)) of the digits concatenated
FixFlagOf(bitmask) ==
    IF \E k \in 1..Len(bitmask) : IsBool(bitmask[k])
    THEN [outcome |-> "TypeError", fixflag |-> ""]
    ELSE IF \E k \in 1..Len(bitmask) : bitmask[k] \notin {"0", "1"}
    THEN [outcome |-> "ValueError", fixflag |-> ""]
    ELSE [outcome |-> "ok", fixflag |-> Str(Int2(bitmask))]

\* the bitmask field of the source's line. The outcomes: "ok" with the field,
\* "AttributeError" (a description that is None), "TypeError" (a bool among
\* the strings concatenated), "ValueError" (a digit that is not binary)
_computeFixFlag(source) ==
    IF source.spectrum = NoSpectrum
    THEN [outcome |-> "AttributeError", fixflag |-> ""]
    ELSE IF PyEq(getFreeAttributeValueOf(source.spectrum, "Flux"), 0)
    THEN [outcome |-> "ok", fixflag |-> "0"]
    ELSE IF source.spatialModel = NoSpatialModel
    THEN [outcome |-> "AttributeError", fixflag |-> ""]
    ELSE FixFlagOf(BitmaskDigits(source))

\* ---- the text of the AGILE format ----------------------------------------------
\* a text is the sequence of its pieces: the strings of the catalog, the
\* literals of the code, " " and "\n"
\* Spectrum/SpatialModel.getParamAttributeWhere(attributeName, "name", value):
\* the attribute of the last parameter of that name; the pop() of an empty
\* list when the description has none
getParamAttributeWhere(description, attributeName, value) ==
    LET ps == description.parameters
        ks == {k \in 1..Len(ps) : ps[k].name = value}
    IN  IF ks = {} THEN [outcome |-> "IndexError", s |-> ""]
        ELSE [outcome |-> "ok", s |-> ps[CHOOSE k \in ks : \A j \in ks : j <= k][attributeName]]

Literal(s) == [outcome |-> "ok", s |-> s]

\* the name of the index parameter of the spectrum type
IndexName(type) == IF type = "PLSuperExpCutoff" THEN "Index1" ELSE "Index"

\* the model-family discriminator and its two values
FamilyPieces(spectrum) ==
    LET Value(n) == getParamAttributeWhere(spectrum, "value", n) IN
    IF spectrum.type = "PowerLaw"
    THEN << Literal("0"), Literal(" "), Literal("0"), Literal(" "), Literal("0"),
            Literal(" ") >>
    ELSE IF spectrum.type = "PLExpCutoff"
    THEN << Literal("1"), Literal(" "), Value("CutoffEnergy"), Literal(" "),
            Literal("0"), Literal(" ") >>
    ELSE IF spectrum.type = "PLSuperExpCutoff"
    THEN << Literal("2"), Literal(" "), Value("CutoffEnergy"), Literal(" "),
            Value("Index2"), Literal(" ") >>
    ELSE << Literal("3"), Literal(" "), Value("PivotEnergy"), Literal(" "),
            Value("Curvature"), Literal(" ") >>

\* the four bounds that end the line
BoundPieces(spectrum) ==
    LET Min(n) == getParamAttributeWhere(spectrum, "min", n)
        Max(n) == getParamAttributeWhere(spectrum, "max", n)
    IN
    IF spectrum.type = "PowerLaw"
    THEN << Literal("-1"), Literal(" "), Literal("-1"), Literal(" "), Literal("-1"),
            Literal(" "), Literal("-1") >>
    ELSE IF spectrum.type = "PLExpCutoff"
    THEN << Min("CutoffEnergy"), Literal(" "), Max("CutoffEnergy"), Literal(" "),
            Literal(" "), Literal("-1"), Literal(" "), Literal("-1") >>
    ELSE IF spectrum.type = "PLSuperExpCutoff"
    THEN << Min("CutoffEnergy"), Literal(" "), Max("CutoffEnergy"), Literal(" "),
            Min("Index2"), Literal(" "), Max("Index2") >>
    ELSE << Min("PivotEnergy"), Literal(" "), Max("PivotEnergy"), Literal(" "),
            Min("Curvature"), Literal(" "), Max("Curvature") >>

FixFlagPiece(fixflag) == [outcome |-> fixflag.outcome, s |-> fixflag.fixflag]

\* the pieces of the line of one source, in the order the code appends them
LinePieces(source) ==
    LET spectrum == source.spectrum
        spatial  == source.spatialModel
    IN     << getParamAttributeWhere(spectrum, "value", "Flux"), Literal(" "),
              getParamAttributeWhere(spatial, "value", "GLON"), Literal(" "),
              getParamAttributeWhere(spatial, "value", "GLAT"), Literal(" "),
              getParamAttributeWhere(spectrum, "value", IndexName(spectrum.type)),
              Literal(" "),
              FixFlagPiece(_computeFixFlag(source)), Literal(" "),
              Literal("2"), Literal(" "),
              Literal(source.name), Literal(" "),
              Literal(spatial.location_limit), Literal(" ") >>
        \o FamilyPieces(spectrum)
        \o << getParamAttributeWhere(spectrum, "min", IndexName(spectrum.type)),
              Literal(" "),
              getParamAttributeWhere(spectrum, "max", IndexName(spectrum.type)),
              Literal(" ") >>
        \o BoundPieces(spectrum)
        \o << Literal("\n") >>

\* the string of the pieces, or the failure of the first piece that failed
Appended(pieces) ==
    IF \E k \in 1..Len(pieces) : pieces[k].outcome # "ok"
    THEN [outcome |-> pieces[CHOOSE k \in 1..Len(pieces) :
                                 /\ pieces[k].outcome # "ok"
                                 /\ \A j \in 1..(k - 1) : pieces[j].outcome = "ok"].outcome,
          text |-> <<>>]
    ELSE [outcome |-> "ok", text |-> [k \in 1..Len(pieces) |-> pieces[k].s]]

\* the line of the source, or the first failure met while building it
SourceLine(source) ==
    IF source.spectrum = NoSpectrum \/ source.spatialModel = NoSpatialModel
    THEN [outcome |-> "AttributeError", text |-> <<>>]
    ELSE Appended(LinePieces(source))

\* a line and the lines after it, or the first failure among them
Followed(line, rest) ==
    IF line.outcome # "ok" THEN line
    ELSE IF rest.outcome # "ok" THEN rest
    ELSE [outcome |-> "ok", text |-> line.text \o rest.text]

\* sourceStr after the sources of the list from the i-th on
RECURSIVE ConvertFrom(_, _)
ConvertFrom(list, i) ==
    IF i > Len(list) THEN [outcome |-> "ok", text |-> <<>>]
    ELSE Followed(SourceLine(src[list[i]]), ConvertFrom(list, i + 1))

\* a library without a catalog has None where the sources are looked up
_convertToAgileFormat ==
    IF ~loaded THEN [outcome |-> "AttributeError", text |-> <<>>]
    ELSE ConvertFrom(sources, 1)

\* ---- writing the catalog ---------------------------------------------------------
\* the file is opened and written once the text is there
Written(sourcesAgileFormat, outfileNamePrefix) ==
    IF sourcesAgileFormat.outcome # "ok"
    THEN [outcome |-> sourcesAgileFormat.outcome, result |-> <<>>,
          invoked |-> <<>>, outfile |-> outfile]
    ELSE [outcome |-> "ok",
          result  |-> <<xmlFilePathPrefix \o outfileNamePrefix \o ".txt">>,
          invoked |-> <<>>,
          outfile |-> [exists |-> TRUE, text |-> sourcesAgileFormat.text]]

\* the file is opened, empty, whether the text is there or not
OpenedThenWritten(sourcesAgileFormat, outfileNamePrefix) ==
    [outcome |-> sourcesAgileFormat.outcome,
     result  |-> IF sourcesAgileFormat.outcome = "ok"
                 THEN <<xmlFilePathPrefix \o outfileNamePrefix \o ".txt">> ELSE <<>>,
     invoked |-> <<>>,
     outfile |-> [exists |-> TRUE, text |-> sourcesAgileFormat.text]]

\* mutant: the file is opened for writing before the text is encoded
writeToFile_openFirst(outfileNamePrefix, format) ==
    IF format \notin {"AG"}
    THEN [outcome |-> "exit", result |-> <<>>, invoked |-> <<>>, outfile |-> outfile]
    ELSE IF xmlFilePathPrefix = "None"
    THEN [outcome |-> "TypeError", result |-> <<>>, invoked |-> <<>>, outfile |-> outfile]
    ELSE OpenedThenWritten(_convertToAgileFormat, outfileNamePrefix)

\* the path is joined to a prefix that is None before any load (TypeError);
\* the whole text is encoded, then the file is opened and written
writeToFile(outfileNamePrefix, format) ==
    IF format \notin {"AG"}
    THEN [outcome |-> "exit", result |-> <<>>, invoked |-> <<>>, outfile |-> outfile]
    ELSE IF xmlFilePathPrefix = "None"
    THEN [outcome |-> "TypeError", result |-> <<>>, invoked |-> <<>>, outfile |-> outfile]
    ELSE Written(_convertToAgileFormat, outfileNamePrefix)

\* ---- the output file of the fitter ---------------------------------------------
\* a string is the sequence of its pieces: words, " ", ",", "..", "\n"
\* str.strip(): the string without the white space at its ends
RECURSIVE Strip(_)
Strip(s) ==
    IF s = <<>> THEN s
    ELSE IF Head(s) \in {" ", "\n"} THEN Strip(Tail(s))
    ELSE IF s[Len(s)] \in {" ", "\n"} THEN Strip(SubSeq(s, 1, Len(s) - 1))
    ELSE s

\* the string of the pieces
RECURSIVE Join(_)
Join(s) == IF s = <<>> THEN "" ELSE Head(s) \o Join(Tail(s))

\* the values handed to MultiOutput: a str, or a list of str
StrValue(s)   == [t |-> "str", v |-> <<Join(s)>>]
ListValue(ss) == [t |-> "list", v |-> [k \in 1..Len(ss) |-> Join(ss[k])]]

\* the number of lines a fit result is read from
BodyLines == 17

\* the values of the line of the given number (from 0), or an IndexError where
\* the line has not the fields its number asks for
ValuesOf(lin_num, line) ==
    LET raw     == SplitAt(line, " ")
        kept    == SelectSeq(raw, LAMBDA v : v # <<>>)
        values  == [k \in 1..Len(kept) |-> Strip(kept[k])]
        strs(vs) == [k \in 1..Len(vs) |-> StrValue(vs[k])]
        TwoLists == << ListValue(SplitAt(raw[1], ",")),
                       ListValue([k \in 1..Len(SplitAt(raw[2], ",")) |->
                                     Strip(SplitAt(raw[2], ",")[k])]) >>
        Side(field, n) == LET bins == SplitAt(field, ",") IN
                          ListValue([k \in 1..Len(bins) |-> SplitAt(bins[k], "..")[n]])
        Ranged(field) == \A k \in 1..Len(SplitAt(field, ",")) :
                            Len(SplitAt(SplitAt(field, ",")[k], "..")) >= 2
        built ==
            IF lin_num = 0
            THEN [outcome |-> "ok",
                  values |-> strs(SelectSeq(values, LAMBDA v :
                                 v # <<"[">> /\ v # <<"]">> /\ v # <<",">>))]
            ELSE IF lin_num = 5
            THEN IF values = <<>> THEN [outcome |-> "IndexError", values |-> <<>>]
                 ELSE [outcome |-> "ok",
                       values |-> strs(SubSeq(values, 1, Len(values) - 1))
                                  \o << ListValue(SplitAt(values[Len(values)], ",")) >>]
            ELSE IF lin_num \in {8, 9, 10, 11}
            THEN IF Len(raw) < 2 THEN [outcome |-> "IndexError", values |-> <<>>]
                 ELSE [outcome |-> "ok", values |-> TwoLists]
            ELSE IF lin_num = 13
            THEN IF Len(raw) < 2 \/ ~Ranged(raw[1]) \/ ~Ranged(raw[2])
                 THEN [outcome |-> "IndexError", values |-> <<>>]
                 ELSE [outcome |-> "ok",
                       values |-> << Side(raw[1], 1), Side(raw[1], 2),
                                     Side(raw[2], 1), Side(raw[2], 2) >>
                                  \o strs(SubSeq(values,
                                                 IF Len(values) > 5 THEN Len(values) - 4 ELSE 1,
                                                 Len(values)))]
            ELSE [outcome |-> "ok", values |-> strs(values)]
    IN  [outcome |-> built.outcome,
         values |-> SelectSeq(built.values, LAMBDA v : v # StrValue(<<>>))]

\* allValues after the lines of the body from the k-th on
RECURSIVE AllValuesFrom(_, _)
AllValuesFrom(body, k) ==
    IF k > Len(body) THEN [outcome |-> "ok", values |-> <<>>]
    ELSE LET line == ValuesOf(k - 1, body[k])
             rest == AllValuesFrom(body, k + 1)
         IN  IF line.outcome # "ok" THEN line
             ELSE IF rest.outcome # "ok" THEN rest
             ELSE [outcome |-> "ok", values |-> line.values \o rest.values]

\* mutant: only the comment lines at the head of the file are dropped
RECURSIVE parseSourceFile_headerOnly(_)
parseSourceFile_headerOnly(lines) ==
    IF lines # <<>> /\ Head(lines)[1] = "!" THEN parseSourceFile_headerOnly(Tail(lines))
    ELSE IF Len(lines) # BodyLines
    THEN [outcome |-> "exit", result |-> <<>>, invoked |-> <<>>]
    ELSE LET allValues == AllValuesFrom(lines, 1) IN
         [outcome |-> allValues.outcome, result |-> allValues.values, invoked |-> <<>>]

\* the MultiOutput built from the values of the lines that are no comments
parseSourceFile(lines) ==
    LET body == SelectSeq(lines, LAMBDA line : line[1] # "!") IN
    IF Len(body) # BodyLines
    THEN [outcome |-> "exit", result |-> <<>>, invoked |-> <<>>]
    ELSE LET allValues == AllValuesFrom(body, 1) IN
         [outcome |-> allValues.outcome, result |-> allValues.values, invoked |-> <<>>]

\* ---- AGEng: the pointing distances ---------------------------------------------
\* a line of the index of the log files: a path and the time interval of the file
LogLine(path, tmin, tmax) == [path |-> path, tmin |-> tmin, tmax |-> tmax]

\* the paths of the log files of the index whose interval meets [tmin, tmax]
_getLogsFileInInterval(logfilesIndex, tmin, tmax) ==
    LET lines == SelectSeq(logfilesIndex,
                           LAMBDA line : line.tmin <= tmax /\ tmin <= line.tmax)
    IN  [k \in 1..Len(lines) |-> lines[k].path]

\* the arrays of one log file, each taken as the file its samples come from
_computeSeparationPerFile(logFile) == << <<logFile>>, <<logFile>>, <<logFile>> >>

\* separation_tot, ti_tt_tot, tf_tt_tot after the log files from the k-th on
RECURSIVE Concatenated(_, _)
Concatenated(logFiles, k) ==
    IF k > Len(logFiles) THEN << <<>>, <<>>, <<>> >>
    ELSE [c \in 1..3 |-> _computeSeparationPerFile(logFiles[k])[c]
                         \o Concatenated(logFiles, k + 1)[c]]

\* the tuple returned for the log files found: five components when there is
\* none, seven otherwise
Returning(logFiles) ==
    IF logFiles = <<>>
    THEN [outcome |-> "ok", invoked |-> <<>>,
          result |-> << <<>>, <<>>, <<>>, <<"ra">>, <<"dec">> >>]
    ELSE [outcome |-> "ok", invoked |-> <<>>,
          result |-> << Concatenated(logFiles, 1)[1], Concatenated(logFiles, 1)[2],
                        Concatenated(logFiles, 1)[3], Concatenated(logFiles, 1)[2],
                        Concatenated(logFiles, 1)[3], <<"ra">>, <<"dec">> >>]

\* the reference system must be "equ" or "gal" and the step at least 1; the
\* debug message of the galactic coordinates reads skyCordsGAL, which is
\* bound for "gal" only
_computePointingDistancesFromSource(tmin, tmax, ref, step, logfilesIndex) ==
    IF ref \notin {"equ", "gal"}
    THEN [outcome |-> "WrongCoordinateSystemError", invoked |-> <<>>, result |-> <<>>]
    ELSE IF step < 1
    THEN [outcome |-> "ValueError", invoked |-> <<>>, result |-> <<>>]
    ELSE IF ref = "equ"
    THEN [outcome |-> "UnboundLocalError", invoked |-> <<>>, result |-> <<>>]
    ELSE Returning(_getLogsFileInInterval(logfilesIndex, tmin, tmax))

\* the tuple is unpacked into seven names, then plotted; invoked keeps the
\* outcome of the computation
Unpacked(computed) ==
    IF computed.outcome # "ok"
    THEN [outcome |-> computed.outcome, invoked |-> <<computed.outcome>>, result |-> <<>>]
    ELSE IF Len(computed.result) # 7
    THEN [outcome |-> "ValueError", invoked |-> <<"ok">>, result |-> <<>>]
    ELSE [outcome |-> "ok", invoked |-> <<"ok">>, result |-> computed.result]

visibilityPlot(tmin, tmax, ref, step, logfilesIndex) ==
    Unpacked(_computePointingDistancesFromSource(tmin, tmax, ref, step, logfilesIndex))

\* ---- the state machine ---------------------------------------------------------
\* no file has been written
NoFile == [exists |-> FALSE, text |-> <<>>]

\* a path is the directory and the name of a file; None stands where no
\* path was given yet
Path(dir, name) == [dir |-> dir, name |-> name]
NoPath == Path("None", "None")

\* os.path.split(path): the directory and the file name
split(path) == <<path.dir, path.name>>

Snapshot ==
    [loaded |-> loaded, sources |-> sources, src |-> src, fits |-> fits,
     outfile |-> outfile, xmlFilePath |-> xmlFilePath,
     xmlFilePathPrefix |-> xmlFilePathPrefix]

Op(name, lam, parameterName, free, data, center, r) ==
    [name |-> name, lam |-> lam, parameterName |-> parameterName, free |-> free,
     data |-> data, center |-> center, doc |-> <<>>, source |-> 0,
     outcome |-> r.outcome, result |-> r.result, invoked |-> r.invoked,
     pre |-> Snapshot]

\* no call is under way: the caller has taken the last call's outcome
Idle ==
    [name |-> "idle", lam |-> NoLambda, parameterName |-> "", free |-> "",
     data |-> NoData, center |-> <<0, 0>>, doc |-> <<>>, source |-> 0,
     outcome |-> "ok", result |-> <<>>, invoked |-> <<>>,
     pre |-> [loaded |-> FALSE, sources |-> <<>>, src |-> <<>>, fits |-> <<>>,
              outfile |-> NoFile, xmlFilePath |-> NoPath, xmlFilePathPrefix |-> "None"]]

Init ==
    /\ loaded = FALSE
    /\ sources = <<>>
    /\ src = <<>>
    /\ fits = <<>>
    /\ attached = {}
    /\ outfile = NoFile
    /\ xmlFilePathPrefix = "None"
    /\ xmlFilePath = NoPath
    /\ loadedFrom = NoPath
    /\ op = Idle

\* the path and its prefix are stored, then the document at the path is
\* parsed; the catalog is assigned once the whole document is parsed: a parse
\* that fails leaves the library with the catalog it had
LoadSourceLibraryXML(paths, documents) ==
    \E path \in paths, doc \in documents :
        LET r == _parseSourceXml(doc) IN
        /\ op = Idle
        /\ xmlFilePath' = path
        /\ xmlFilePathPrefix' = split(path)[1]
        /\ loadedFrom' = IF r.outcome = "ok" THEN path ELSE loadedFrom
        /\ IF r.outcome = "ok"
           THEN /\ loaded' = TRUE
                /\ src' = r.sources
                /\ sources' = [i \in 1..Len(r.sources) |-> i]
                /\ fits' = <<>>
                /\ attached' = {}
           ELSE UNCHANGED <<loaded, sources, src, fits, attached>>
        /\ op' = [Op("load", NoLambda, "", "", NoData, <<0, 0>>,
                     Returned(r.outcome, <<>>, <<>>)) EXCEPT !.doc = doc]
        /\ UNCHANGED outfile

SelectSourcesWithLambda(lambdas) ==
    \E lam \in lambdas :
        /\ op = Idle
        /\ op' = Op("select", lam, "", "", NoData, <<0, 0>>, selectSourcesWithLambda(lam))
        /\ UNCHANGED <<loaded, sources, src, fits, attached, outfile,
                     xmlFilePathPrefix, xmlFilePath, loadedFrom>>

FreeSources(lambdas, parameterNames, freeValues) ==
    \E lam \in lambdas, parameterName \in parameterNames, free \in freeValues :
        LET r == freeSources(lam, parameterName, free) IN
        /\ op = Idle
        /\ src' = r.src
        /\ op' = Op("freeSources", lam, parameterName, free, NoData, <<0, 0>>, r)
        /\ UNCHANGED <<loaded, sources, fits, attached, outfile,
                     xmlFilePathPrefix, xmlFilePath, loadedFrom>>

DeleteSources(lambdas) ==
    \E lam \in lambdas :
        LET r == deleteSources(lam) IN
        /\ op = Idle
        /\ sources' = r.sources
        /\ op' = Op("deleteSources", lam, "", "", NoData, <<0, 0>>, r)
        /\ UNCHANGED <<loaded, src, fits, attached, outfile,
                     xmlFilePathPrefix, xmlFilePath, loadedFrom>>

UpdateMulti(fitData, mapCenters) ==
    \E data \in fitData, center \in mapCenters :
        LET r == updateMulti(data, center[1], center[2]) IN
        /\ op = Idle
        /\ src' = r.src
        /\ fits' = r.fits
        /\ attached' = IF r.outcome = "ok" THEN attached \cup Range(r.result) ELSE attached
        /\ op' = Op("updateMulti", NoLambda, "", "", data, center, r)
        /\ UNCHANGED <<loaded, sources, outfile,
                     xmlFilePathPrefix, xmlFilePath, loadedFrom>>

\* the encoder computes the bitmask field of a source of the catalog
ComputeFixFlag ==
    \E s \in Range(sources) :
        LET r == _computeFixFlag(src[s]) IN
        /\ op = Idle
        /\ op' = [Op("_computeFixFlag", NoLambda, "", "", NoData, <<0, 0>>,
                     Returned(r.outcome, <<r.fixflag>>, <<>>)) EXCEPT !.source = s]
        /\ UNCHANGED <<loaded, sources, src, fits, attached, outfile,
                     xmlFilePathPrefix, xmlFilePath, loadedFrom>>

\* the encoder turns the catalog into the text of the AGILE format
ConvertToAgileFormat ==
    \E r \in {_convertToAgileFormat} :
    /\ op = Idle
    /\ op' = Op("_convertToAgileFormat", NoLambda, "", "", NoData, <<0, 0>>,
                Returned(r.outcome, r.text, <<>>))
    /\ UNCHANGED <<loaded, sources, src, fits, attached, outfile,
                     xmlFilePathPrefix, xmlFilePath, loadedFrom>>

WriteToFile(formats) ==
    \E format \in formats :
        \E r \in {writeToFile("sources", format)} :
        /\ op = Idle
        /\ outfile' = r.outfile
        /\ op' = [Op("writeToFile", NoLambda, "", "", NoData, <<0, 0>>, r)
                  EXCEPT !.parameterName = format]
        /\ UNCHANGED <<loaded, sources, src, fits, attached,
                     xmlFilePathPrefix, xmlFilePath, loadedFrom>>

\* the output file of a fit is read
ParseSourceFile(files) ==
    \E lines \in files :
        /\ op = Idle
        /\ op' = [Op("parseSourceFile", NoLambda, "", "", NoData, <<0, 0>>,
                     parseSourceFile(lines)) EXCEPT !.doc = lines]
        /\ UNCHANGED <<loaded, sources, src, fits, attached, outfile,
                     xmlFilePathPrefix, xmlFilePath, loadedFrom>>

\* the engineering object computes the pointing distances of a time window
ComputePointingDistancesFromSource(windows, refs, steps, indexes) ==
    \E w \in windows, ref \in refs, step \in steps, logfilesIndex \in indexes :
        /\ op = Idle
        /\ op' = [Op("_computePointingDistancesFromSource", NoLambda, ref, "", NoData, w,
                     _computePointingDistancesFromSource(w[1], w[2], ref, step,
                                                         logfilesIndex))
                  EXCEPT !.doc = logfilesIndex, !.source = step]
        /\ UNCHANGED <<loaded, sources, src, fits, attached, outfile,
                       xmlFilePathPrefix, xmlFilePath, loadedFrom>>

VisibilityPlot(windows, refs, steps, indexes) ==
    \E w \in windows, ref \in refs, step \in steps, logfilesIndex \in indexes :
        /\ op = Idle
        /\ op' = [Op("visibilityPlot", NoLambda, ref, "", NoData, w,
                     visibilityPlot(w[1], w[2], ref, step, logfilesIndex))
                  EXCEPT !.doc = logfilesIndex, !.source = step]
        /\ UNCHANGED <<loaded, sources, src, fits, attached, outfile,
                       xmlFilePathPrefix, xmlFilePath, loadedFrom>>

\* the call is over: an outcome is the caller's to keep or drop, and the
\* library object goes on as the call left it
Return ==
    /\ op # Idle
    /\ op' = Idle
    /\ UNCHANGED <<loaded, sources, src, fits, attached, outfile,
                     xmlFilePathPrefix, xmlFilePath, loadedFrom>>

\* ---- inputs of the specifications ------------------------------------------
OnePath == {Path("./", "sources.xml")}
Lambdas == { Lam(<<"Name">>, "A"), Lam(<<"Name">>, "B"), Lam(<<"Dist">>, ""),
             Lam(<<"Bogus">>, ""), Lam(<<"Name", "Bogus">>, "A"),
             Lam(<<"Dist", "Name">>, "A") }
FitPositions == { <<Sentinel, Sentinel>>, <<Sentinel, 90>>, <<90, Sentinel>>, <<90, 90>> }
FitData      == { Fit(l, p[1], p[2]) : l \in FitLabels, p \in FitPositions }
FitDataTwo   == { Fit(l, p[1], p[2]) : l \in FitLabels,
                                       p \in {<<90, Sentinel>>, <<Sentinel, Sentinel>>} }
MapCenters   == { <<0, 0>>, <<90, 0>> }

\* every operation, in any order
Next ==
    \/ LoadSourceLibraryXML(OnePath, Documents)
    \/ Return
    \/ SelectSourcesWithLambda(Lambdas)
    \/ FreeSources(Lambdas, {"Flux", "Bogus"}, {"True", "False"})
    \/ DeleteSources(Lambdas)
    \/ UpdateMulti(FitDataTwo, {<<0, 0>>})

Spec == Init /\ [][Next]_vars

\* attaching fit results: every fitted position, two map centers
NextMulti ==
    \/ LoadSourceLibraryXML(OnePath, Documents)
    \/ Return
    \/ DeleteSources({Lam(<<"Name">>, "A"), Lam(<<"Dist">>, "")})
    \/ UpdateMulti(FitData, MapCenters)

SpecMulti == Init /\ [][NextMulti]_vars

\* the bitmask of one source: every spectrum type, every flag of the file
FreeFlags == [{"Flux", "Index", "Index1", "Index2", "CutoffEnergy", "PivotEnergy",
               "Curvature"} -> {"0", "1"}]
FlagDocuments ==
    { <<XmlSource("A", type, [n \in DOMAIN free |->
                                IF n \in Range(ParametersOf(type)) THEN free[n] ELSE "0"],
                  spatialFree, {})>> :
        type \in SpectrumTypes, free \in FreeFlags, spatialFree \in {"0", "1", "2"} }

NextFixFlag ==
    \/ LoadSourceLibraryXML(OnePath, FlagDocuments)
    \/ Return
    \/ FreeSources({Lam(<<"Name">>, "A")}, {"Flux"}, {"True", "False"})
    \/ ComputeFixFlag

SpecFixFlag == Init /\ [][NextFixFlag]_vars

\* the sources the encoder is applied to: of every spectrum type, complete or
\* with one of the parameters its line refers to left out, and one whose
\* position is free as well
ReferencedBy(type) == Range(ParametersOf(type)) \cup {"GLON", "GLAT"}
EncodeSources ==
    { XmlSource(IF type \in {"PowerLaw", "PLExpCutoff"} THEN "A" ELSE "B", type,
                [AllFixed EXCEPT !["Flux"] = "1"], "0", missing) :
        type \in SpectrumTypes,
        missing \in {{}} \cup {{n} : n \in {"Flux", "Index", "Index1", "Index2",
                                          "CutoffEnergy", "PivotEnergy", "Curvature",
                                          "GLON", "GLAT"}} }
    \cup { XmlSource("A", "PowerLaw", [AllFixed EXCEPT !["Flux"] = "1"], "2", {}) }
EncodeDocuments == UNION {[1..n -> EncodeSources] : n \in 0..MaxSources}

\* the library after the load of a document
InitEncode ==
    \E doc \in EncodeDocuments :
        /\ loaded = TRUE
        /\ src = _parseSourceXml(doc).sources
        /\ sources = [i \in 1..Len(doc) |-> i]
        /\ fits = <<>>
        /\ attached = {}
        /\ outfile = NoFile
        /\ xmlFilePathPrefix = "./"
        /\ xmlFilePath = Path("./", "sources.xml")
        /\ loadedFrom = Path("./", "sources.xml")
        /\ op = Idle

NextEncode ==
    \/ ConvertToAgileFormat
    \/ Return

SpecEncode == InitEncode /\ [][NextEncode]_vars

\* writing catalogs that can and that cannot be encoded, one after another
WriteSources ==
    { XmlSource("A", "PowerLaw", [AllFixed EXCEPT !["Flux"] = "1"], "0", {}),
      XmlSource("B", "LogParabola", [AllFixed EXCEPT !["Flux"] = "1"], "1", {}),
      XmlSource("A", "PowerLaw", [AllFixed EXCEPT !["Flux"] = "1"], "0", {"Flux"}),
      XmlSource("B", "PLExpCutoff", [AllFixed EXCEPT !["Flux"] = "1"], "0",
                {"CutoffEnergy"}) }
WriteDocuments == UNION {[1..n -> WriteSources] : n \in 0..MaxSources}

NextWrite ==
    \/ LoadSourceLibraryXML(OnePath, WriteDocuments)
    \/ Return
    \/ WriteToFile({"AG", "XML"})

SpecWrite == Init /\ [][NextWrite]_vars

\* documents of any shape: a child of the root that is no <source>, a child
\* of a <source> that is no description, a child of a description that is no
\* <parameter>, among plain sources
OddSources ==
    { SourceElement("sources", "A", PlainSource("A").children),
      SourceElement("source", "A",
          << PlainSource("A").children[1],
             DescriptionElement("spatial", "PointSource", "0", "5", <<>>) >>),
      SourceElement("source", "B",
          << DescriptionElement("spectrum", "PowerLaw", "", "",
                 << ParameterElement("parameter", "Flux", "7e-08", "1e-10", "1e-04", "1"),
                    ParameterElement("param", "Index", "2.1", "0.5", "5", "0") >>),
             PlainSource("B").children[2] >>) }
XmlDocuments ==
    UNION {[1..n -> {PlainSource(name) : name \in SourceNames} \cup OddSources] :
           n \in 0..MaxSources}

NextLoad ==
    \/ LoadSourceLibraryXML(OnePath, XmlDocuments)
    \/ Return
    \/ DeleteSources({Lam(<<"Name">>, "A")})

SpecLoad == Init /\ [][NextLoad]_vars

\* loading documents of any shape from two directories, and writing the catalog
TwoPaths == {Path("a/", "A.xml"), Path("b/", "B.xml")}
ReloadDocuments ==
    UNION {[1..n -> {PlainSource("A"), PlainSource("B")} \cup
                    {SourceElement("sources", "A", PlainSource("A").children)}] :
           n \in 0..MaxSources}

NextReload ==
    \/ LoadSourceLibraryXML(TwoPaths, ReloadDocuments)
    \/ Return
    \/ WriteToFile({"AG"})

SpecReload == Init /\ [][NextReload]_vars

\* the pointing distances: indexes of log files of consecutive intervals,
\* windows that meet one, several or none of them
MaxLogFiles == 2
LogLines == { LogLine("f1.log", 0, 1), LogLine("f2.log", 2, 3) }
LogIndexes == UNION {[1..n -> LogLines] : n \in 0..MaxLogFiles}
Windows == { <<0, 1>>, <<2, 3>>, <<1, 2>>, <<4, 5>> }

NextVisibility ==
    \/ ComputePointingDistancesFromSource(Windows, {"equ", "gal", "icrs"}, {0, 1}, LogIndexes)
    \/ VisibilityPlot(Windows, {"equ", "gal", "icrs"}, {0, 1}, LogIndexes)
    \/ Return

SpecVisibility == Init /\ [][NextVisibility]_vars

\* the output files of the fitter: the lines of a fit result, one line short,
\* complete, or with one line more, and comment lines anywhere among them
MaxComments == 2
CommentLine == <<"!", " ", "Label", ",", " ", "Fix", "\n">>
Words(ws) ==
    [k \in 1..(2 * Len(ws)) |-> IF k % 2 = 1 THEN ws[(k + 1) \div 2]
                                ELSE IF k = 2 * Len(ws) THEN "\n" ELSE " "]
Coefficients == <<"0.7", ",", "0.8", " ", "0.1", ",", "0.2", "\n">>
FitLines ==
    << Words(<<"A", "1", "2.1", "180", "0", "[", "-1", ",", "-1", "]">>),
       Words(<<"5.2">>),
       Words(<<"90", "0", "1.5">>),
       Words(<<"91", "1", "1.4", "0.3">>),
       Words(<<"250", "20">>),
       << "7e-08", " ", "1e-08", " ", "3e-08", ",", "4e-08", "\n" >>,
       Words(<<"2.1", "0.1">>),
       Words(<<"0", "0">>),
       Coefficients, Coefficients, Coefficients, Coefficients,
       Words(<<"58000", "58001">>),
       << "100", "..", "400", ",", "400", "..", "1000", " ", "0", "..", "30", " ",
          "1", " ", "2", " ", " ", "3", " ", "4", " ", "5", "\n" >>,
       Words(<<"10", "2">>),
       Words(<<"0.5">>),
       Words(<<"1", "1">>),
       Words(<<"extra">>) >>

\* the comment lines put before the lines of the given positions
RECURSIVE Weave(_, _, _)
Weave(body, at, k) ==
    IF k > Len(body) + 1 THEN <<>>
    ELSE [i \in 1..Cardinality({j \in DOMAIN at : at[j] = k}) |-> CommentLine]
         \o (IF k <= Len(body) THEN <<body[k]>> ELSE <<>>)
         \o Weave(body, at, k + 1)

SourceFiles ==
    { Weave(SubSeq(FitLines, 1, n), at, 1) :
        n \in {BodyLines - 1, BodyLines, BodyLines + 1},
        at \in UNION {[1..c -> 1..(BodyLines + 2)] : c \in 0..MaxComments} }

NextParse ==
    \/ ParseSourceFile(SourceFiles)
    \/ Return

SpecParse == Init /\ [][NextParse]_vars

\* ---- what the claims speak of ----------------------------------------------
Validated(lam) == SelectSeq(lam.params, LAMBDA p : p \in SelectionParams)
Dropped(lam)   == SelectSeq(lam.params, LAMBDA p : p \notin SelectionParams)
NeedsMulti(lam) == \E k \in 1..Len(lam.params) : lam.params[k] \in MultiParams

\* the source may be handed to the predicate
Eligible(lam, s) == NeedsMulti(lam) => src[s].multi # 0

\* the value of a registered attribute of a source
AttributeOf(s, p) ==
    IF p = "Name" THEN StrVal(src[s].name) ELSE NumVal(fits[src[s].multi].Dist)

\* the predicate is true of the source: each of its tests on a registered
\* attribute holds of that attribute of the source
TrueOf(lam, s) ==
    /\ ("Name" \in Range(lam.params)) => src[s].name = lam.name
    /\ ("Dist" \in Range(lam.params)) => fits[src[s].multi].Dist <= lam.maxDist

\* the sources of the list the predicate selects, in the order of the list:
\* none when no declared name is registered, else the eligible sources of
\* which the predicate is true
Selection(lam, list) ==
    IF Validated(lam) = <<>> THEN <<>>
    ELSE SelectSeq(list, LAMBDA s : Eligible(lam, s) /\ TrueOf(lam, s))

\* C1: when every parameter name the predicate declares is outside the
\* registry of selection parameters, select returns the empty list, does not
\* fail and has not invoked the predicate, whatever the catalog holds.
C1_UnregisteredSelectsNothing ==
    (op.name = "select" /\ loaded /\ Validated(op.lam) = <<>>)
        => /\ op.outcome = "ok"
           /\ op.result = <<>>
           /\ op.invoked = <<>>

\* C1 witness: such a select has returned over a catalog of two sources, one
\* of them carrying a fit result.
C1_Witness ==
    /\ op.name = "select" /\ loaded
    /\ op.lam.params # <<>> /\ Validated(op.lam) = <<>>
    /\ Len(sources) = 2
    /\ \E k \in 1..2 : src[sources[k]].multi # 0

\* C2: a predicate declaring both registered and unregistered names is still
\* invoked, on each eligible source, with the values of the validated names
\* only, in declared order, and select completes with a result list.
C2_MixedPredicateCompletes ==
    (op.name = "select" /\ loaded /\ Validated(op.lam) # <<>> /\ Dropped(op.lam) # <<>>)
        => /\ op.outcome = "ok"
           /\ [k \in 1..Len(op.invoked) |-> op.invoked[k].source]
                  = SelectSeq(sources, LAMBDA s : Eligible(op.lam, s))
           /\ \A k \in 1..Len(op.invoked) :
                  op.invoked[k].args =
                      [j \in 1..Len(Validated(op.lam)) |->
                           AttributeOf(op.invoked[k].source, Validated(op.lam)[j])]

\* C3: a select over a fitted attribute returns a source only if an earlier
\* updateMulti attached a fit result to it; a source whose multi is unset is
\* skipped: the predicate is not invoked on it and no error comes of it.
C3_FittedSelectionNeedsMulti ==
    (op.name = "select" /\ loaded /\ NeedsMulti(op.lam))
        => /\ \A k \in 1..Len(op.result) : op.result[k] \in attached
           /\ \A k \in 1..Len(op.invoked) : src[op.invoked[k].source].multi # 0
           /\ op.outcome # "AttributeError"

\* C3 witness: a select over Dist has returned a source with a fit result
\* and passed over a source of the catalog that has none.
C3_Witness ==
    /\ op.name = "select" /\ NeedsMulti(op.lam) /\ op.outcome = "ok"
    /\ op.result # <<>>
    /\ \E k \in 1..Len(sources) : src[sources[k]].multi = 0

\* C4: with a non-empty validated parameter set, select returns exactly the
\* eligible sources of which the predicate is true, in catalog order, and has
\* invoked the predicate at most once per source.
C4_SelectExact ==
    (op.name = "select" /\ loaded /\ Validated(op.lam) # <<>>)
        => /\ op.outcome = "ok"
           /\ op.result = Selection(op.lam, sources)
           /\ \A j, k \in 1..Len(op.invoked) :
                  op.invoked[j].source = op.invoked[k].source => j = k

\* What holds of select when the bug of C2 is out of the way: for a predicate
\* whose declared names are all registered, the result is exactly the
\* selection, and no source is handed to the predicate twice.
SelectExactWhenAllRegistered ==
    (op.name = "select" /\ loaded /\ Validated(op.lam) # <<>> /\ Dropped(op.lam) = <<>>)
        => /\ op.outcome = "ok"
           /\ op.result = Selection(op.lam, sources)
           /\ op.lam.params = <<"Name">> =>
                  op.result = SelectSeq(sources, LAMBDA s : src[s].name = op.lam.name)
           /\ \A j, k \in 1..Len(op.invoked) :
                  op.invoked[j].source = op.invoked[k].source => j = k

C6_UnregisteredParameterFails ==
    (op.name = "freeSources" /\ op.parameterName \notin FreeParams)
        => /\ op.outcome # "ok"
           /\ src = op.pre.src
           /\ sources = op.pre.sources
           /\ fits = op.pre.fits

\* C6 witness: such a call has failed after its predicate selected a source.
C6_Witness ==
    /\ op.name = "freeSources" /\ op.parameterName \notin FreeParams
    /\ op.outcome = "NameError"
    /\ Selection(op.lam, sources) # <<>>

\* C7: freeSources with a registered parameterName sets the free flag of that
\* parameter to freeValue on every selected source, returns exactly the
\* selected sources, and changes nothing else: no other source, no other
\* parameter's flag, no value, nor the catalog's membership and order.
C7_FreeSetsSelectedOnly ==
    (op.name = "freeSources" /\ op.parameterName \in FreeParams /\ op.outcome = "ok")
        => /\ op.result = Selection(op.lam, sources)
           /\ DOMAIN src = DOMAIN op.pre.src
           /\ \A s \in DOMAIN src :
                 LET new == src[s]
                     old == op.pre.src[s]
                 IN /\ new.name = old.name
                    /\ new.multi = old.multi
                    /\ new.spatialModel = old.spatialModel
                    /\ new.spectrum.type = old.spectrum.type
                    /\ Len(new.spectrum.parameters) = Len(old.spectrum.parameters)
                    /\ \A k \in 1..Len(old.spectrum.parameters) :
                          LET p == new.spectrum.parameters[k]
                              q == old.spectrum.parameters[k]
                          IN /\ <<p.name, p.value, p.min, p.max>>
                                    = <<q.name, q.value, q.min, q.max>>
                             /\ p.free = IF s \in Range(op.result)
                                            /\ q.name = op.parameterName
                                         THEN op.free ELSE q.free
           /\ sources = op.pre.sources
           /\ fits = op.pre.fits

\* C7 witness: a call has changed the flag of a selected source in a catalog
\* that also holds a source it did not select.
C7_Witness ==
    /\ op.name = "freeSources" /\ op.outcome = "ok"
    /\ op.result # <<>>
    /\ src # op.pre.src
    /\ \E k \in 1..Len(sources) : sources[k] \notin Range(op.result)

\* C8: freeSources is idempotent: the same call made again in the state the
\* first call left returns the same list and leaves every source as the
\* first call left it.
C8_FreeIdempotent ==
    (op.name = "freeSources")
        => LET second == freeSources(op.lam, op.parameterName, op.free)
           IN /\ second.outcome = op.outcome
              /\ second.result = op.result
              /\ second.src = src

\* C8 witness: the first call has changed a flag of a source it returned.
C8_Witness ==
    /\ op.name = "freeSources" /\ op.outcome = "ok"
    /\ op.result # <<>>
    /\ src # op.pre.src

\* C9: updateMulti with a label that is the name of no source of the catalog
\* fails fatally and leaves every source's multi, every fit result and the
\* catalog's list as they were.
C9_UnknownLabelFails ==
    (/\ op.name = "updateMulti" /\ loaded
     /\ \A k \in 1..Len(sources) : src[sources[k]].name # op.data.label)
        => /\ op.outcome = "exit"
           /\ src = op.pre.src
           /\ fits = op.pre.fits
           /\ sources = op.pre.sources

\* C9 witness: such a call has failed on a catalog one source of which
\* carries a fit result.
C9_Witness ==
    /\ op.name = "updateMulti" /\ op.outcome = "exit"
    /\ \E k \in 1..Len(sources) : src[sources[k]].multi # 0

C11_ExclusiveFitResult ==
    \A i, j \in 1..Len(src) :
        (i # j /\ src[i].multi # 0) => src[i].multi # src[j].multi


\* ---- the bitmask the claims speak of ----------------------------------------
\* the source whose bitmask the call computed
Packed == src[op.source]

\* the free flag of the spectrum parameter, as the file gave it or as
\* freeSources set it; a parameter the spectrum has not counts as fixed
FlagOf(source, n) ==
    LET ps == source.spectrum.parameters IN
    IF \E k \in 1..Len(ps) : ps[k].name = n
    THEN (CHOOSE p \in Range(ps) : p.name = n).free
    ELSE "0"

Bit(flag) == IF flag = "1" THEN 1 ELSE 0

C13_NineDigitBitmask ==
    (/\ op.name = "_computeFixFlag"
     /\ FlagOf(Packed, "Flux") = "1"
     /\ Packed.spatialModel.free = "2")
    => /\ op.outcome = "ok"
       /\ op.result = << Str(256
                         + 128 * Bit(FlagOf(Packed, "Curvature"))
                         + 64 * Bit(FlagOf(Packed, "Index2"))
                         + 32 * Bit(FlagOf(Packed, "CutoffEnergy"))
                         + 16 * Bit(FlagOf(Packed, "PivotEnergy"))
                         + 8 * Bit(FlagOf(Packed, "Index"))
                         + 4 * Bit(FlagOf(Packed, "Index1"))
                         + 1) >>

\* C14: for every source whose Flux is fixed (flag 0), as the file gave the
\* flag or as freeSources set it, the emitted bitmask field is 0, whatever the
\* other flags are.
C14_FixedFluxGivesZero ==
    (/\ op.name = "_computeFixFlag"
     /\ FlagOf(Packed, "Flux") \in {"0", "False"})
    => /\ op.outcome = "ok"
       /\ op.result = <<"0">>


\* ---- the encoded text the claims speak of -------------------------------------
\* the parameter of the description of that name
ParameterOf(description, n) == CHOOSE p \in Range(description.parameters) : p.name = n

\* the source has every parameter its line refers to
Complete(source) ==
    /\ \A n \in Range(ParametersOf(source.spectrum.type)) :
          \E p \in Range(source.spectrum.parameters) : p.name = n
    /\ \A n \in {"GLON", "GLAT"} :
          \E p \in Range(source.spatialModel.parameters) : p.name = n

\* C15: when a source of the catalog lacks a parameter the encoder refers to
\* for it, writeToFile fails and the output file is neither created nor
\* modified; no failed write touches the file, the whole text being encoded
\* before the file is opened.
C15_FailedWriteLeavesFile ==
    (op.name = "writeToFile" /\ op.parameterName = "AG")
    => /\ (op.pre.loaded /\ \E i \in 1..Len(sources) : ~Complete(src[sources[i]]))
             => op.outcome \notin {"ok"}
       /\ op.outcome # "ok" => outfile = op.pre.outfile

\* a catalog whose second source lacks a parameter is written over the file
\* an earlier catalog was written to
C15_Witness ==
    /\ op.name = "writeToFile"
    /\ op.parameterName = "AG"
    /\ op.outcome = "IndexError"
    /\ Len(sources) >= 2
    /\ Complete(src[sources[1]])
    /\ ~Complete(src[sources[2]])
    /\ op.pre.outfile.exists
    /\ outfile.text # <<>>


\* the lines of the text, each without the "\n" that ends it
Lines(text) ==
    LET runs == SplitAt(text, "\n") IN SubSeq(runs, 1, Len(runs) - 1)

\* the fields of a line split on a single space, and those that are not empty
Fields(line) == SplitAt(line, " ")
Tokens(line) == SelectSeq(Fields(line), LAMBDA f : f # <<>>)

\* the fields the claim gives for the line of a complete source: index value,
\* name, discriminator with its two values, index bounds, four last bounds
IndexOf(source) ==
    ParameterOf(source.spectrum,
                IF source.spectrum.type = "PLSuperExpCutoff" THEN "Index1" ELSE "Index")

FamilyOf(source) ==
    LET sp == source.spectrum
        P(n) == ParameterOf(sp, n)
    IN  IF sp.type = "PowerLaw"
        THEN << <<"0">>, <<"0">>, <<"0">>, <<"-1">>, <<"-1">>, <<"-1">>, <<"-1">> >>
        ELSE IF sp.type = "PLExpCutoff"
        THEN << <<"1">>, <<P("CutoffEnergy").value>>, <<"0">>,
                <<P("CutoffEnergy").min>>, <<P("CutoffEnergy").max>>, <<"-1">>, <<"-1">> >>
        ELSE IF sp.type = "PLSuperExpCutoff"
        THEN << <<"2">>, <<P("CutoffEnergy").value>>, <<P("Index2").value>>,
                <<P("CutoffEnergy").min>>, <<P("CutoffEnergy").max>>,
                <<P("Index2").min>>, <<P("Index2").max>> >>
        ELSE << <<"3">>, <<P("PivotEnergy").value>>, <<P("Curvature").value>>,
                <<P("PivotEnergy").min>>, <<P("PivotEnergy").max>>,
                <<P("Curvature").min>>, <<P("Curvature").max>> >>

LineAsClaimed(line, source) ==
    LET f == Tokens(line) IN
    /\ Len(f) = 17
    /\ f[4] = <<IndexOf(source).value>>
    /\ f[7] = <<source.name>>
    /\ SubSeq(f, 9, 11) = SubSeq(FamilyOf(source), 1, 3)
    /\ f[12] = <<IndexOf(source).min>>
    /\ f[13] = <<IndexOf(source).max>>
    /\ SubSeq(f, 14, 17) = SubSeq(FamilyOf(source), 4, 7)

\* C16: the encoder emits one line per source in catalog order; on each line
\* the discriminator and its values are 0 0 0 (PowerLaw), 1 <CutoffEnergy> 0
\* (PLExpCutoff), 2 <CutoffEnergy> <Index2> (PLSuperExpCutoff), 3 <PivotEnergy>
\* <Curvature> (any other type), the index value and bounds are those of Index1
\* for PLSuperExpCutoff and of Index otherwise, and the four last bounds are
\* -1 where the type has no parameter for them.
C16_LinePerSource ==
    (/\ op.name = "_convertToAgileFormat"
     /\ \A i \in 1..Len(sources) : Complete(src[sources[i]]))
    => /\ op.outcome = "ok"
       /\ Len(Lines(op.result)) = Len(sources)
       /\ \A i \in 1..Len(sources) : LineAsClaimed(Lines(op.result)[i], src[sources[i]])

\* C20: for every spectrum type, each line of the encoded text, split on a
\* single space, gives exactly 17 fields, none of them empty (no string of the
\* catalog holds a space).
C20_SeventeenFields ==
    (op.name = "_convertToAgileFormat" /\ op.outcome = "ok")
    => \A i \in 1..Len(Lines(op.result)) :
          /\ Len(Fields(Lines(op.result)[i])) = 17
          /\ \A k \in 1..Len(Fields(Lines(op.result)[i])) :
                Fields(Lines(op.result)[i])[k] # <<>>


\* ---- the fit result the claims speak of -----------------------------------------
S(s) == [t |-> "str", v |-> <<s>>]
L(ss) == [t |-> "list", v |-> ss]

\* the values of the seventeen lines of a fit result, line after line
FitValues ==
    << S("A"), S("1"), S("2.1"), S("180"), S("0"), S("-1"), S("-1"),
       S("5.2"),
       S("90"), S("0"), S("1.5"),
       S("91"), S("1"), S("1.4"), S("0.3"),
       S("250"), S("20"),
       S("7e-08"), S("1e-08"), L(<<"3e-08", "4e-08">>),
       S("2.1"), S("0.1"),
       S("0"), S("0"),
       L(<<"0.7", "0.8">>), L(<<"0.1", "0.2">>),
       L(<<"0.7", "0.8">>), L(<<"0.1", "0.2">>),
       L(<<"0.7", "0.8">>), L(<<"0.1", "0.2">>),
       L(<<"0.7", "0.8">>), L(<<"0.1", "0.2">>),
       S("58000"), S("58001"),
       L(<<"100", "400">>), L(<<"400", "1000">>), L(<<"0">>), L(<<"30">>),
       S("1"), S("2"), S("3"), S("4"), S("5"),
       S("10"), S("2"),
       S("0.5"),
       S("1"), S("1") >>

\* the lines of the file read that begin with '!'
CommentsAt == {k \in 1..Len(op.doc) : Head(op.doc[k]) = "!"}

\* C17: the parser discards every line that begins with '!', wherever it is
\* in the file, and requires exactly 17 lines to remain: with any other count
\* (16, 18) it fails fatally and returns no fit result; with exactly 17 it
\* builds the fit result from the values of all the lines, in line order.
C17_SeventeenLines ==
    op.name = "parseSourceFile"
    => IF Len(op.doc) - Cardinality(CommentsAt) = 17
       THEN op.outcome = "ok" /\ op.result = FitValues
       ELSE op.outcome = "exit" /\ op.result = <<>>

\* a file of 17 lines with a comment between two of them and one at its end
C17_Witness ==
    /\ op.name = "parseSourceFile"
    /\ op.outcome = "ok"
    /\ Len(op.doc) = 19
    /\ CommentsAt = {4, 19}


\* ---- the document the claims speak of ---------------------------------------------
\* the element is a <source> all of whose children are <spectrum> or
\* <spatialModel> elements with <parameter> children only
WellFormed(element) ==
    /\ element.tag = "source"
    /\ \A d \in Range(element.children) :
          /\ d.tag \in {"spectrum", "spatialModel"}
          /\ \A p \in Range(d.children) : p.tag = "parameter"

\* the names of the parameters of the description of that tag, in document order
NamesIn(element, tag) ==
    LET d == CHOOSE x \in Range(element.children) : x.tag = tag IN
    [k \in 1..Len(d.children) |-> d.children[k].attrib.name]

NamesOf(description) ==
    [k \in 1..Len(description.parameters) |-> description.parameters[k].name]

\* C18: the load of a document with an element that is not well-formed (a
\* child of the root that is no source, a child of a source that is neither
\* spectrum nor spatialModel, a child of those that is no parameter) aborts
\* with a fatal error: no catalog is produced, and none holding only the
\* sources parsed before that element is ever seen. The load of a well-formed
\* document gives a catalog of one source per source element in document
\* order, each with its parameters in document order.
C18_LoadAllOrNothing ==
    op.name = "load"
    => IF \A i \in 1..Len(op.doc) : WellFormed(op.doc[i])
       THEN /\ op.outcome = "ok"
            /\ loaded
            /\ Len(sources) = Len(op.doc)
            /\ \A i \in 1..Len(op.doc) :
                  /\ src[sources[i]].name = op.doc[i].attrib.name
                  /\ NamesOf(src[sources[i]].spectrum) = NamesIn(op.doc[i], "spectrum")
                  /\ NamesOf(src[sources[i]].spatialModel) = NamesIn(op.doc[i], "spatialModel")
       ELSE /\ op.outcome \notin {"ok"}
            /\ loaded = op.pre.loaded
            /\ sources = op.pre.sources
            /\ src = op.pre.src

\* a document whose second element is not well-formed is loaded over a catalog
C18_Witness ==
    /\ op.name = "load"
    /\ Len(op.doc) = 2
    /\ WellFormed(op.doc[1])
    /\ ~WellFormed(op.doc[2])
    /\ op.outcome = "NameError"
    /\ op.pre.loaded
    /\ Len(sources) = 1


\* ---- the catalog the claims speak of -----------------------------------------------
\* the list the last load built: its sources are those of the heap, in order
LoadedList == [i \in 1..Len(src) |-> i]

\* list is sub with some of its elements left out, the others in their order
SubSequence(sub, list) ==
    /\ \A i, j \in 1..Len(sub) : i < j => sub[i] < sub[j]
    /\ Range(sub) \subseteq Range(list)

\* C19: after a load, under any sequence of select, freeSources, deleteSources
\* and updateMulti, the source list of the catalog is an order-preserving
\* sub-sequence of the loaded list: no call adds, duplicates or reorders a
\* source, only deleteSources removes any, and select, freeSources and
\* updateMulti leave the list as it was.
C19_SubSequenceOfLoaded ==
    /\ SubSequence(sources, LoadedList)
    /\ op.name \in {"select", "freeSources", "updateMulti"} => sources = op.pre.sources
    /\ op.name = "deleteSources" => SubSequence(sources, op.pre.sources)

\* a fit result is attached after the first of two loaded sources was deleted
C19_Witness ==
    /\ op.name = "updateMulti"
    /\ op.outcome = "ok"
    /\ Len(src) = 2
    /\ sources = <<2>>


\* ---- the paths the claims speak of ---------------------------------------------------
\* C21: a load that fails leaves the state of the library as it was before the
\* call: the catalog, the stored path of the document and the stored prefix
\* of the path are those of the last successful load, so that a writeToFile
\* that follows writes that catalog into the directory it was loaded from.
C21_FailedLoadLeavesState ==
    /\ (op.name = "load" /\ op.outcome # "ok" /\ op.pre.loaded)
          => /\ loaded = op.pre.loaded
             /\ sources = op.pre.sources
             /\ src = op.pre.src
             /\ xmlFilePath = op.pre.xmlFilePath
             /\ xmlFilePathPrefix = op.pre.xmlFilePathPrefix
    /\ (op.name = "writeToFile" /\ op.outcome = "ok")
          => op.result = <<loadedFrom.dir \o "sources.txt">>


\* ---- the pointing distances the claims speak of -------------------------------------
\* C22: on every path that returns, _computePointingDistancesFromSource
\* returns the seven components separations, ti_tt, tf_tt, ti_mjd, tf_mjd, ra,
\* dec, also when no log file of the index meets [tmin, tmax], so that
\* visibilityPlot can always unpack what was returned into its seven names.
C22_SevenComponents ==
    /\ (op.name = "_computePointingDistancesFromSource" /\ op.outcome = "ok")
          => Len(op.result) = 7
    /\ (op.name = "visibilityPlot" /\ op.invoked = <<"ok">>) => op.outcome = "ok"

====
